---- MODULE Spec2Model ----
(***************************************************************************)
(* Model of addon-test-support/audit.ts of ember-a11y-testing: the         *)
(* parameter normalizer (_isContext, _normalizeRunParams), the result      *)
(* translator (processAxeResults) and the promise chain of a11yAudit.      *)
(***************************************************************************)
EXTENDS Integers, Sequences, FiniteSets, TLC

VARIABLES
  registry,       \* what getRunOptions() returns (run-options registry)
  testId,         \* QUnit.config.current.testId
  bodyClassList,  \* document.body.classList
  pc,             \* position of each a11yAudit invocation in its promise chain
  args,           \* the (first, second) arguments each invocation was given
  runArgs,        \* the (context, options) pair handed to the engine's run()
  engineOut,      \* what the engine reported for each invocation
  val,            \* settlement carried along each invocation's promise chain
  processed,      \* number of processAxeResults runs of each invocation
  trace,          \* side effects of each invocation, in program order
  returned,       \* the promise each invocation returned to its caller
  seen,           \* settlement the caller's handlers of each invocation saw
  ctxIn,          \* argument of the last direct _isContext call
  ctxOut,         \* its outcome
  normIn,         \* arguments of the last direct _normalizeRunParams call
  normOut         \* its outcome

vars == <<registry, testId, bodyClassList, pc, args, runArgs, engineOut, val,
          processed, trace, returned, seen, ctxIn, ctxOut, normIn, normOut>>

auditVars == <<bodyClassList, pc, args, runArgs, engineOut, val, processed,
               trace, returned, seen>>

paramVars == <<ctxIn, ctxOut, normIn, normOut>>

-----------------------------------------------------------------------------
(* Bounds *)

NumAudits == 2

MaxViolations == 2

-----------------------------------------------------------------------------
(* JavaScript values that can be passed as arguments.  A property of an    *)
(* object is "absent", "undefined" (key present, value undefined) or "set".*)

JS(kind, id, inc, exc) ==
  [kind |-> kind, id |-> id, include |-> inc, exclude |-> exc]

Undefined == JS("undefined", "undefined", "absent", "absent")

\* marks "no call made yet" in the variables that record arguments
NoArg == JS("none", "none", "absent", "absent")

Null == JS("null", "null", "absent", "absent")

Str(s) == JS("string", s, "absent", "absent")

Obj(id, inc, exc) == JS("object", id, inc, exc)

EmptyObj == Obj("{}", "absent", "absent")

DefaultSelector == Str("#ember-testing-container")

AxeRunning == "axe-running"

PropStates == {"absent", "undefined", "set"}

Objects ==
  {Obj("opts1", "absent", "absent"), Obj("opts2", "absent", "absent")}
    \cup {Obj("ctx", i, e) : i \in PropStates, e \in PropStates}

Values ==
  {Undefined, Null, Str(".foo"), DefaultSelector,
   JS("number", "42", "absent", "absent"),
   JS("boolean", "true", "absent", "absent"),
   JS("function", "fn", "absent", "absent"),
   JS("array", "['.a']", "absent", "absent"),
   JS("node", "div", "absent", "absent"),
   JS("nodelist", "divs", "absent", "absent")} \cup Objects

\* values given as the second (options) argument
SecondValues ==
  {Undefined, Null, Obj("opts2", "absent", "absent"), Str(".foo"),
   JS("number", "42", "absent", "absent"),
   JS("array", "['.a']", "absent", "absent")}

Registries == {Undefined, Obj("registered", "absent", "absent")}

TestIds == {"5a1c", "77f0"}

TypeOf(v) ==
  CASE v.kind \in {"null", "array", "node", "nodelist", "object"} -> "object"
    [] OTHER -> v.kind

IsArray(v) == v.kind = "array"

InstanceOfNode(v) == v.kind = "node"

InstanceOfNodeList(v) == v.kind = "nodelist"

\* variant: tests the presence of the key ('include' in potential)
PropPresent(state) == state # "absent"

\* potential.include !== undefined / potential.exclude !== undefined
PropDefined(state) == state = "set"

Truthy(v) == v.kind \notin {"undefined", "null"}

-----------------------------------------------------------------------------
(* _isContext: switch (true) evaluated case by case, in source order.      *)
(* Reading a property of null throws a TypeError.                          *)

Returned(b) == [threw |-> FALSE, ret |-> b]

ThrewTypeError == [threw |-> TRUE, ret |-> FALSE]

_isContext(potential) ==
  IF TypeOf(potential) = "string" THEN Returned(TRUE)
  ELSE IF IsArray(potential) THEN Returned(TRUE)
  ELSE IF InstanceOfNode(potential) THEN Returned(TRUE)
  ELSE IF InstanceOfNodeList(potential) THEN Returned(TRUE)
  ELSE IF TypeOf(potential) # "object" THEN Returned(FALSE)
  ELSE IF potential.kind = "null" THEN ThrewTypeError
  ELSE IF PropDefined(potential.include) THEN Returned(TRUE)
  ELSE IF PropDefined(potential.exclude) THEN Returned(TRUE)
  ELSE Returned(FALSE)

getRunOptions(reg) == reg

NormThrew == [threw |-> TRUE, context |-> Undefined, options |-> Undefined]

DefaultOptions(reg) ==
  IF Truthy(getRunOptions(reg)) THEN getRunOptions(reg) ELSE EmptyObj

ResolveOptions(options, reg) ==
  IF TypeOf(options) # "object" THEN DefaultOptions(reg) ELSE options

_normalizeRunParams(elementContext, runOptions, reg) ==
  LET c == _isContext(elementContext) IN
  IF c.threw THEN NormThrew
  ELSE IF ~c.ret
    THEN [threw |-> FALSE, context |-> DefaultSelector,
          options |-> ResolveOptions(elementContext, reg)]
    ELSE [threw |-> FALSE, context |-> elementContext,
          options |-> ResolveOptions(runOptions, reg)]

-----------------------------------------------------------------------------
(* Engine results, errors and the values a promise settles with.           *)

PVal(kind, id, violations, message) ==
  [kind |-> kind, id |-> id, violations |-> violations, message |-> message]

UndefinedValue == PVal("undefined", "undefined", <<>>, <<>>)

NullValue == PVal("null", "null", <<>>, <<>>)

AxeResult(violations) == PVal("result", "AxeResults", violations, <<>>)

EngineError(id) == PVal("engineError", id, <<>>, <<>>)

\* new Error(message)
NewError(message) == PVal("Error", "Error", <<>>, message)

Node(html) == [html |-> html]

Violation(id, nodes) == [id |-> id, nodes |-> nodes]

Violations ==
  {Violation("color-contrast", <<Node("<a>"), Node("<p>")>>),
   Violation("label", <<Node("<input>")>>),
   Violation("page-has-heading-one", <<>>)}

RECURSIVE SeqsUpTo(_, _)
SeqsUpTo(S, n) ==
  IF n = 0 THEN {<<>>}
  ELSE LET shorter == SeqsUpTo(S, n - 1) IN
       shorter \cup {Append(q, x) : q \in {r \in shorter : Len(r) = n - 1},
                                    x \in S}

AxeResults == {AxeResult(vs) : vs \in SeqsUpTo(Violations, MaxViolations)}

EngineErrors == {EngineError("axe failure"), EngineError("frame timeout")}

\* callback(error, result): the engine reports an error or a result
EngineOutcomes ==
  {<<NullValue, r>> : r \in AxeResults}
    \cup {<<e, UndefinedValue>> : e \in EngineErrors}

Pending == [state |-> "pending", value |-> UndefinedValue]

Fulfilled(v) == [state |-> "fulfilled", value |-> v]

Rejected(v) == [state |-> "rejected", value |-> v]

NoOutcome == [how |-> "none", error |-> NullValue, result |-> UndefinedValue]

-----------------------------------------------------------------------------
(* processAxeResults.  Text is a sequence of tokens; a token is a fixed    *)
(* piece of the template, the test id, or one formatted violation.         *)

Tok(t, id, nodes) == [t |-> t, id |-> id, nodes |-> nodes]

Header == Tok("The page should have no accessibility violations. Violations:\n",
              "", <<>>)

NewLine == Tok("\n", "", <<>>)

FooterIntro ==
  Tok("\nTo rerun this specific failure, use the following query params: &",
      "", <<>>)

TestIdTok(tid) == Tok("testId", tid, <<>>)

FooterLiteral == Tok("&enableA11yAudit=true", "", <<>>)

formatViolation(violation, violationNodes) ==
  Tok("violation", violation.id, violationNodes)

\* variant: keeps the first element only
JoinFirstOnly(arr, sep) == IF Len(arr) = 0 THEN <<>> ELSE <<arr[1]>>

\* Array.prototype.join
RECURSIVE Join(_, _)
Join(arr, sep) ==
  IF Len(arr) = 0 THEN <<>>
  ELSE IF Len(arr) = 1 THEN <<arr[1]>>
  ELSE <<arr[1], sep>> \o Join(Tail(arr), sep)

\* violation.nodes.map((node) => node.html)
NodeHtmls(nodes) == [k \in 1..Len(nodes) |-> nodes[k].html]

FormatOne(violation) ==
  LET violationNodes == NodeHtmls(violation.nodes) IN
  formatViolation(violation, violationNodes)

\* violations.map((violation) => ...)
FormatAll(violations) ==
  [k \in 1..Len(violations) |-> FormatOne(violations[k])]

processAxeResults(results, tid) ==
  LET violations == results.violations IN
  IF Len(violations) # 0
    THEN LET allViolations == FormatAll(violations)
             allViolationMessages == Join(allViolations, NewLine)
         IN  [threw |-> TRUE,
              value |-> NewError(<<Header>> \o allViolationMessages
                          \o <<FooterIntro, TestIdTok(tid), FooterLiteral>>)]
    ELSE [threw |-> FALSE, value |-> UndefinedValue]

-----------------------------------------------------------------------------
(* Collaborators: timing marks and the body's class list.                  *)

mark(tr, name) == Append(tr, name)

markEndAndMeasure(tr, measureName, startMark, endMark) ==
  tr \o <<endMark, measureName>>

\* variant: the class is never added
ClassListAddNothing(list, cls) == list

ClassListAdd(list, cls) == list \cup {cls}

ClassListRemove(list, cls) == list \ {cls}

-----------------------------------------------------------------------------
Init ==
  /\ registry \in Registries
  /\ testId \in TestIds
  /\ bodyClassList = {}
  /\ ctxIn = NoArg
  /\ ctxOut = Returned(FALSE)
  /\ normIn = <<NoArg, NoArg>>
  /\ normOut = NormThrew
  /\ pc = [i \in 1..NumAudits |-> "idle"]
  /\ args = [i \in 1..NumAudits |-> <<NoArg, NoArg>>]
  /\ runArgs = [i \in 1..NumAudits |-> <<NoArg, NoArg>>]
  /\ engineOut = [i \in 1..NumAudits |-> NoOutcome]
  /\ val = [i \in 1..NumAudits |-> Pending]
  /\ processed = [i \in 1..NumAudits |-> 0]
  /\ trace = [i \in 1..NumAudits |-> <<>>]
  /\ returned = [i \in 1..NumAudits |-> Pending]
  /\ seen = [i \in 1..NumAudits |-> Pending]

IsContextCall(x) ==
  /\ ctxIn' = x
  /\ ctxOut' = _isContext(x)
  /\ UNCHANGED <<registry, testId, normIn, normOut, auditVars>>

NormalizeCall(first, second) ==
  /\ normIn' = <<first, second>>
  /\ normOut' = _normalizeRunParams(first, second, registry)
  /\ UNCHANGED <<registry, testId, ctxIn, ctxOut, auditVars>>

NextParams ==
  \/ \E x \in Values : IsContextCall(x)
  \/ \E first \in Values, second \in SecondValues : NormalizeCall(first, second)

SpecParams == Init /\ [][NextParams]_vars
-----------------------------------------------------------------------------
(* a11yAudit, one action per synchronous run of code: the call itself,     *)
(* the engine's callback, and the jobs of .then(...) and .finally(...).    *)

\* variant: no default value for the first parameter
DefaultParamMissing(first) == first

\* contextSelector: MaybeElementContext = '#ember-testing-container'
DefaultParam(first) == IF first = Undefined THEN DefaultSelector ELSE first

\* variant: the engine's error is wrapped in a new Error
CallbackSettleWrapped(error, result) ==
  IF ~Truthy(error) THEN Fulfilled(result) ELSE Rejected(NewError(<<>>))

\* the engine callback: if (!error) resolve(result) else reject(error)
CallbackSettle(error, result) ==
  IF ~Truthy(error) THEN Fulfilled(result) ELSE Rejected(error)

\* .then(processAxeResults): runs only on fulfilment, a rejection passes on
ThenSettle(p, tid) ==
  IF p.state = "fulfilled"
    THEN LET r == processAxeResults(p.value, tid) IN
         [val |-> IF r.threw THEN Rejected(r.value) ELSE Fulfilled(r.value),
          ran |-> 1]
    ELSE [val |-> p, ran |-> 0]

\* variant: the cleanup measures but leaves the class on the body
FinallyCallbackKeepsClass(list, tr) ==
  [classList |-> list,
   trace |-> markEndAndMeasure(Append(tr, "classList.remove"),
                               "a11y_audit", "a11y_audit_start",
                               "a11y_audit_end")]

\* the callback given to .finally
FinallyCallback(list, tr) ==
  [classList |-> ClassListRemove(list, AxeRunning),
   trace |-> markEndAndMeasure(Append(tr, "classList.remove"),
                               "a11y_audit", "a11y_audit_start",
                               "a11y_audit_end")]

\* variant: .finally swallows the settlement (as a .catch would)
FinallySettleSwallows(p) == Fulfilled(UndefinedValue)

\* .finally settles its promise as the promise it was called on
FinallySettle(p) == p

a11yAudit(i, first, second, thrown) ==
  /\ pc[i] = "idle"
  /\ LET started == mark(trace[i], "a11y_audit_start")
         n == _normalizeRunParams(DefaultParam(first), second, registry)
     IN  /\ args' = [args EXCEPT ![i] = <<first, second>>]
         /\ IF n.threw
              THEN /\ thrown = NullValue
                   /\ pc' = [pc EXCEPT ![i] = "threw"]
                   /\ trace' = [trace EXCEPT ![i] = started]
                   /\ UNCHANGED <<bodyClassList, runArgs, engineOut, val>>
              ELSE /\ bodyClassList' = ClassListAdd(bodyClassList, AxeRunning)
                   /\ runArgs' = [runArgs EXCEPT ![i] = <<n.context, n.options>>]
                   /\ trace' = [trace EXCEPT
                                  ![i] = started \o <<"classList.add", "run">>]
                   /\ IF thrown = NullValue
                        THEN /\ pc' = [pc EXCEPT ![i] = "running"]
                             /\ UNCHANGED <<engineOut, val>>
                        ELSE \* run() threw inside the promise's executor
                             /\ pc' = [pc EXCEPT ![i] = "p1"]
                             /\ val' = [val EXCEPT ![i] = Rejected(thrown)]
                             /\ engineOut' = [engineOut EXCEPT ![i] =
                                  [how |-> "threw", error |-> thrown,
                                   result |-> UndefinedValue]]
  /\ UNCHANGED <<registry, testId, processed, returned, seen, paramVars>>

EngineCallback(i, error, result) ==
  /\ pc[i] = "running"
  /\ pc' = [pc EXCEPT ![i] = "p1"]
  /\ val' = [val EXCEPT ![i] = CallbackSettle(error, result)]
  /\ engineOut' = [engineOut EXCEPT ![i] =
       [how |-> "callback", error |-> error, result |-> result]]
  /\ trace' = [trace EXCEPT ![i] = Append(@, "callback")]
  /\ UNCHANGED <<registry, testId, bodyClassList, args, runArgs, processed,
                 returned, seen, paramVars>>

ThenJob(i) ==
  /\ pc[i] = "p1"
  /\ LET t == ThenSettle(val[i], testId) IN
       /\ val' = [val EXCEPT ![i] = t.val]
       /\ processed' = [processed EXCEPT ![i] = @ + t.ran]
       /\ trace' = [trace EXCEPT ![i] =
            IF t.ran = 1 THEN Append(@, "processAxeResults") ELSE @]
  /\ pc' = [pc EXCEPT ![i] = "p2"]
  /\ UNCHANGED <<registry, testId, bodyClassList, args, runArgs, engineOut,
                 returned, seen, paramVars>>

\* variant: a reference-counted flag, cleared by the last pending invocation
FinallyJobCounted(i) ==
  /\ pc[i] = "p2"
  /\ LET f == FinallyCallback(bodyClassList, trace[i])
         others == \E j \in 1..NumAudits :
                     j # i /\ pc[j] \in {"running", "p1", "p2"}
     IN  /\ bodyClassList' = IF others THEN bodyClassList ELSE f.classList
         /\ trace' = [trace EXCEPT ![i] = f.trace]
  /\ pc' = [pc EXCEPT ![i] = "cleaned"]
  /\ UNCHANGED <<registry, testId, args, runArgs, engineOut, val, processed,
                 returned, seen, paramVars>>

FinallyJob(i) ==
  /\ pc[i] = "p2"
  /\ LET f == FinallyCallback(bodyClassList, trace[i]) IN
       /\ bodyClassList' = f.classList
       /\ trace' = [trace EXCEPT ![i] = f.trace]
  /\ pc' = [pc EXCEPT ![i] = "cleaned"]
  /\ UNCHANGED <<registry, testId, args, runArgs, engineOut, val, processed,
                 returned, seen, paramVars>>

Settle(i) ==
  /\ pc[i] = "cleaned"
  /\ returned' = [returned EXCEPT ![i] = FinallySettle(val[i])]
  /\ pc' = [pc EXCEPT ![i] = "settled"]
  /\ UNCHANGED <<registry, testId, bodyClassList, args, runArgs, engineOut,
                 val, processed, trace, seen, paramVars>>

\* the caller's handlers, attached to the returned promise
Observe(i) ==
  /\ pc[i] = "settled"
  /\ seen' = [seen EXCEPT ![i] = returned[i]]
  /\ trace' = [trace EXCEPT ![i] = Append(@, "handler")]
  /\ pc' = [pc EXCEPT ![i] = "observed"]
  /\ UNCHANGED <<registry, testId, bodyClassList, args, runArgs, engineOut,
                 val, processed, returned, paramVars>>

\* what run() may throw synchronously: nothing, or an engine error
Thrown == {NullValue} \cup EngineErrors

\* arguments and engine outcomes used when invocations overlap
OverlapFirsts == {Undefined, Null}

OverlapOutcomes ==
  {o \in EngineOutcomes : Len(o[2].violations) = 0}
    \cup {<<NullValue, AxeResult(<<Violation("label", <<Node("<input>")>>)>>)>>}

Next ==
  \E i \in 1..NumAudits :
    \/ \E first \in OverlapFirsts, thrown \in Thrown :
         a11yAudit(i, first, Undefined, thrown)
    \/ \E o \in OverlapOutcomes : EngineCallback(i, o[1], o[2])
    \/ ThenJob(i)
    \/ FinallyJob(i)
    \/ Settle(i)
    \/ Observe(i)

Spec == Init /\ [][Next]_vars

\* the engine calls each callback, and the promise jobs are run
Fairness ==
  \A i \in 1..NumAudits :
    /\ WF_vars(\E o \in OverlapOutcomes : EngineCallback(i, o[1], o[2]))
    /\ WF_vars(ThenJob(i))
    /\ WF_vars(FinallyJob(i))
    /\ WF_vars(Settle(i))
    /\ WF_vars(Observe(i))

FairSpec == Spec /\ Fairness

\* a single invocation, over all argument shapes and engine outcomes
NextSingle ==
  \/ \E first \in Values, second \in SecondValues, thrown \in Thrown :
       a11yAudit(1, first, second, thrown)
  \/ \E o \in EngineOutcomes : EngineCallback(1, o[1], o[2])
  \/ ThenJob(1)
  \/ FinallyJob(1)
  \/ Settle(1)
  \/ Observe(1)

SpecSingle == Init /\ [][NextSingle]_vars

-----------------------------------------------------------------------------
(* Properties *)

\* C1: with a single a11yAudit invocation, the 'axe-running' class is on the
\* body in every state in which the engine call is pending, and it is absent
\* in every state in which the returned promise is settled.
C1_ClassWhileRunningAbsentWhenSettled ==
  /\ pc[1] = "running" => AxeRunning \in bodyClassList
  /\ returned[1].state # "pending" => AxeRunning \notin bodyClassList
  /\ pc[1] = "observed" => AxeRunning \notin bodyClassList

C1_Witness ==
  /\ pc[1] = "observed"
  /\ seen[1].state = "fulfilled"
  /\ "classList.add" \in {trace[1][k] : k \in 1..Len(trace[1])}
  /\ AxeRunning \notin bodyClassList

\* C2: when the engine callback reports an error, the returned promise rejects
\* with that same error value and processAxeResults is never run for that
\* invocation.
C2_EngineErrorPassedThrough ==
  \A i \in 1..NumAudits :
    (engineOut[i].how = "callback" /\ Truthy(engineOut[i].error)) =>
      /\ processed[i] = 0
      /\ "processAxeResults" \notin {trace[i][k] : k \in 1..Len(trace[i])}
      /\ returned[i].state # "pending" =>
           returned[i] = Rejected(engineOut[i].error)
      /\ pc[i] = "observed" => seen[i] = Rejected(engineOut[i].error)

C2_Witness ==
  \E i \in 1..NumAudits :
    /\ pc[i] = "observed"
    /\ engineOut[i].how = "callback"
    /\ engineOut[i].error \in EngineErrors
    /\ seen[i] = Rejected(engineOut[i].error)

\* C3: processAxeResults on a result without violations returns normally with
\* no value; on a result with N >= 1 violations it throws one Error whose
\* message is the header, then the N formatted entries in the engine's order
\* (each built from the violation and the html of all its nodes) separated by
\* newlines, then the footer with the current test id and the literal
\* '&enableA11yAudit=true'.
C3_AllViolationsReported ==
  (pc[1] \in {"p2", "cleaned", "settled", "observed"}
     /\ engineOut[1].how = "callback" /\ ~Truthy(engineOut[1].error)) =>
    LET vs == engineOut[1].result.violations
        N == Len(vs)
        m == val[1].value.message
    IN  /\ processed[1] = 1
        /\ N = 0 => val[1] = Fulfilled(UndefinedValue)
        /\ N >= 1 =>
             /\ val[1].state = "rejected"
             /\ val[1].value.kind = "Error"
             /\ Len(m) = 2 * N + 3
             /\ m[1] = Header
             /\ \A k \in 1..N :
                  /\ m[2 * k].t = "violation"
                  /\ m[2 * k].id = vs[k].id
                  /\ Len(m[2 * k].nodes) = Len(vs[k].nodes)
                  /\ \A n \in 1..Len(vs[k].nodes) :
                       m[2 * k].nodes[n] = vs[k].nodes[n].html
             /\ \A k \in 1..(N - 1) : m[2 * k + 1] = NewLine
             /\ m[2 * N + 1] = FooterIntro
             /\ m[2 * N + 2] = TestIdTok(testId)
             /\ m[2 * N + 3] = FooterLiteral

C3_Witness ==
  /\ pc[1] = "p2"
  /\ engineOut[1].how = "callback"
  /\ Len(engineOut[1].result.violations) = 2
  /\ Len(engineOut[1].result.violations[1].nodes) = 2
  /\ engineOut[1].result.violations[2].id = "label"
  /\ val[1].state = "rejected"
  /\ Len(val[1].value.message) = 7

\* C4 (as stated): _isContext(x) returns true if and only if x is a string,
\* an array, a Node, a NodeList, or an object that has an `include` or
\* `exclude` key, a key whose value is undefined included.
C4_KeyPresenceMakesContext ==
  ctxIn # NoArg =>
    ((~ctxOut.threw /\ ctxOut.ret) <=>
       \/ ctxIn.kind \in {"string", "array", "node", "nodelist"}
       \/ /\ ctxIn.kind = "object"
          /\ (ctxIn.include # "absent" \/ ctxIn.exclude # "absent"))

\* C4 (amended): _isContext(x) returns true if and only if x is a string, an
\* array, a Node, a NodeList, or an object whose `include` or `exclude`
\* property has a value other than undefined; for every other x except null
\* it returns false, so an object whose only such key holds undefined is not
\* a context.
C4_DefinedPropertyMakesContext ==
  ctxIn # NoArg =>
    /\ (~ctxOut.threw /\ ctxOut.ret) <=>
         \/ ctxIn.kind \in {"string", "array", "node", "nodelist"}
         \/ /\ ctxIn.kind = "object"
            /\ (ctxIn.include = "set" \/ ctxIn.exclude = "set")
    /\ ctxIn.kind # "null" => ~ctxOut.threw

C4_Witness ==
  /\ ctxIn = Obj("ctx", "undefined", "absent")
  /\ ctxOut = Returned(FALSE)

\* C5 (as stated): the engine's run() is called with the pair the
\* normalization rule gives for the two arguments as passed to a11yAudit,
\* also for a11yAudit(undefined, opts); stated for a second argument of the
\* declared type (an options object or undefined).
C5_RunGetsNormalizedArguments ==
  (pc[1] \notin {"idle", "threw"}
     /\ args[1][2].kind \in {"object", "undefined"}) =>
    LET n == _normalizeRunParams(args[1][1], args[1][2], registry) IN
    runArgs[1] = <<n.context, n.options>>

\* C5 (amended): a11yAudit(null, ...) throws before the engine is called.
\* Otherwise run() is called with: as context, the first argument when it is
\* a string, array, Node, NodeList or object with a defined include/exclude,
\* and '#ember-testing-container' otherwise; as options, the second argument
\* when the first is such a context or is undefined, and the first argument
\* otherwise, replaced by the registered default options (or {} when none is
\* registered) when its typeof is not 'object'.
C5_RunGetsDefaultedThenNormalizedArguments ==
  LET first == args[1][1]
      second == args[1][2]
      shaped == \/ first.kind \in {"string", "array", "node", "nodelist"}
                \/ /\ first.kind = "object"
                   /\ (first.include = "set" \/ first.exclude = "set")
      raw == IF shaped \/ first.kind = "undefined" THEN second ELSE first
      dflt == IF registry.kind = "object" THEN registry ELSE EmptyObj
      opts == IF raw.kind \in {"object", "null", "array", "node", "nodelist"}
                THEN raw ELSE dflt
  IN  /\ pc[1] = "threw" <=> first.kind = "null"
      /\ pc[1] \notin {"idle", "threw"} =>
           runArgs[1] = <<IF shaped THEN first ELSE DefaultSelector, opts>>

C5_Witness ==
  /\ pc[1] = "running"
  /\ args[1] = <<Undefined, Obj("opts2", "absent", "absent")>>
  /\ runArgs[1] = <<DefaultSelector, Obj("opts2", "absent", "absent")>>

\* C6: the options component returned by _normalizeRunParams is always a
\* plain mapping: never undefined, null, an array or another non-mapping.
C6_OptionsAlwaysPlainMapping ==
  (normIn[1] # NoArg /\ ~normOut.threw) => normOut.options.kind = "object"

\* C7: _isContext and _normalizeRunParams return for every value of their
\* arguments, null included, without throwing.
C7_NormalizationNeverThrows ==
  /\ ctxIn # NoArg => ~ctxOut.threw
  /\ normIn[1] # NoArg => ~normOut.threw

\* C8: on every path that reached the engine call the cleanup runs exactly
\* once, the class removal first and markEndAndMeasure after it, both before
\* the returned promise settles and before the caller's handlers run; and
\* every failure (engine error, run() throwing, violations) is delivered as
\* a rejection of the returned promise.
C8_CleanupOnceBeforeSettlement ==
  \A i \in 1..NumAudits :
    LET tr == trace[i]
        At(e) == {k \in 1..Len(tr) : tr[k] = e}
        Before(a, b) == \A x \in At(a), y \in At(b) : x < y
        failed == \/ Truthy(engineOut[i].error)
                  \/ Len(engineOut[i].result.violations) > 0
    IN  /\ pc[i] \in {"running", "p1", "p2"} =>
             At("classList.remove") = {} /\ At("a11y_audit") = {}
        /\ (pc[i] \in {"cleaned", "settled", "observed"}
              \/ returned[i].state # "pending") =>
             /\ Cardinality(At("classList.remove")) = 1
             /\ Cardinality(At("a11y_audit_end")) = 1
             /\ Cardinality(At("a11y_audit")) = 1
             /\ Before("a11y_audit_start", "a11y_audit_end")
             /\ Before("classList.remove", "a11y_audit_end")
             /\ Before("a11y_audit_end", "a11y_audit")
             /\ Before("a11y_audit", "handler")
        /\ pc[i] \in {"settled", "observed"} =>
             /\ returned[i].state # "pending"
             /\ failed <=> returned[i].state = "rejected"
        /\ pc[i] = "observed" =>
             /\ Cardinality(At("handler")) = 1
             /\ seen[i] = returned[i]

C8_Witness ==
  \E i \in 1..NumAudits :
    /\ pc[i] = "observed"
    /\ seen[i].state = "rejected"
    /\ seen[i].value.kind = "Error"
    /\ trace[i][Len(trace[i])] = "handler"

\* C9: the 'axe-running' flag is not reference-counted: the cleanup of any
\* invocation leaves the class absent from the body, whatever the other
\* invocations are doing, so that an engine call can be pending while the
\* class is absent.
C9_CleanupAlwaysClearsFlag ==
  [][\A i \in 1..NumAudits :
       (pc[i] = "p2" /\ pc'[i] = "cleaned") =>
         AxeRunning \notin bodyClassList']_vars

C9_Witness ==
  \E i, j \in 1..NumAudits :
    /\ i # j
    /\ pc[i] = "running"
    /\ pc[j] \in {"cleaned", "settled", "observed"}
    /\ AxeRunning \notin bodyClassList

\* C10: whenever all the invocations that reached the engine call have
\* settled, the 'axe-running' class is absent from the body; and, the engine
\* invoking each callback, such a state is eventually reached.
C10_FlagClearedOnceAllSettled ==
  LET allReachedSettled ==
        \A i \in 1..NumAudits :
          pc[i] \notin {"idle", "threw"} => returned[i].state # "pending"
  IN  /\ [](allReachedSettled => AxeRunning \notin bodyClassList)
      /\ (\E i \in 1..NumAudits : pc[i] \notin {"idle", "threw"})
           ~> (allReachedSettled /\ AxeRunning \notin bodyClassList)

C10_Witness ==
  /\ \A i \in 1..NumAudits : pc[i] = "observed"
  /\ AxeRunning \notin bodyClassList
====
